---- MODULE Spec2Model ----
(***************************************************************************)
(* Model of the succulent identifier inference service                     *)
(* (ml_service/src/inference.py, preprocessing.py) and of the label file   *)
(* written by the training script (ml_service/src/train.py).               *)
(*                                                                         *)
(* Strings that the code parses or splits (JSON keys, class folder names,  *)
(* labels) are sequences of one-character strings.  Python's None is the   *)
(* record with loaded = FALSE.  An operation that can raise returns a      *)
(* record whose field exc names the exception class ("None" = no raise).   *)
(***************************************************************************)
EXTENDS Integers, Sequences, FiniteSets

VARIABLES
    labels_file,    \* content of Config.LABELS_PATH on disk
    checkpoint,     \* content of Config.MODEL_PATH on disk
    TOP_K,          \* Config.TOP_K
    pc,             \* position of lifespan(): start, labels, model, ready, failed
    startup_error,  \* exception class re-raised out of lifespan(), "None" if none
    labels_map,     \* global labels_map
    model,          \* global model
    preprocessor,   \* global preprocessor
    request,        \* the last request handled, and whether the three globals
                    \* were all set when it was handled
    response        \* the answer to the last request

vars == <<labels_file, checkpoint, TOP_K, pc, startup_error,
          labels_map, model, preprocessor, request, response>>

shared == <<model, labels_map, preprocessor>>

-----------------------------------------------------------------------------
(* Bounds of the model *)

MaxEntries == 2     \* entries of a hand-written label file
MaxClasses == 2     \* class folders of a training run
MaxWidth   == 2     \* widest classification head of a checkpoint on disk
MaxTopK    == 2     \* largest configured TOP_K

(* Program constants *)

IMG_SIZE == 224
HTTP_OK == 200
HTTP_NOT_FOUND == 404
HTTP_INTERNAL == 500
ROUND_SCALE == 10000    \* round(prob, 4): confidences in ten-thousandths

-----------------------------------------------------------------------------
(* Inputs *)

Min(a, b) == IF a <= b THEN a ELSE b

\* Keys of a label file: "0", "1", "01" (a second spelling of 1), "x".
FileKeys == { <<"0">>, <<"1">>, <<"0", "1">>, <<"x">> }

Labels == { <<"a">>, <<"b">> }

\* Class folder names as torchvision's ImageFolder lists them:
\* "a", "g-a", "h-a", "g-b-a".
ClassNames == { <<"a">>, <<"g", "-", "a">>, <<"h", "-", "a">>,
                <<"g", "-", "b", "-", "a">> }

FilePairs == FileKeys \X Labels

SeqsUpTo(S, n) == UNION { [1..k -> S] : k \in 0..n }

\* A label file is missing, not JSON, a JSON array, or a JSON object given by
\* its key/value pairs in textual order.
LabelFiles ==
    { [kind |-> k, pairs |-> <<>>] : k \in {"missing", "garbage", "array"} }
    \cup { [kind |-> "object", pairs |-> p] : p \in SeqsUpTo(FilePairs, MaxEntries) }

\* A checkpoint is missing, unreadable, or holds a state dict whose
\* classification head has `width` >= 1 outputs.
Checkpoints ==
    { [kind |-> k, width |-> 0] : k \in {"missing", "corrupt"} }
    \cup { [kind |-> "ok", width |-> w] : w \in 1..MaxWidth }

\* What opening the image path does: the path has no entry (ENOENT), runs
\* through a regular file (ENOTDIR), names a directory (EISDIR), names a file
\* that does not decode, or names a decodable image.
ImageKinds == {"enoent", "enotdir", "eisdir", "corrupt", "ok"}

\* Raw scores of the classification head, with exp() tabulated in thousandths.
Logits == {0, 2, 5}
ExpMilli(s) == CASE s = 0 -> 1000 [] s = 2 -> 7389 [] s = 5 -> 148413

-----------------------------------------------------------------------------
(* None and the three globals *)

NoLabels == [loaded |-> FALSE, map |-> <<>>]
NoModel == [loaded |-> FALSE, num_classes |-> 0]
NoPreprocessor == [loaded |-> FALSE, img_size |-> 0]

\* model, labels_map and preprocessor are all set.
AllLoaded == model.loaded /\ labels_map.loaded /\ preprocessor.loaded

NoRequest == [op |-> "none", image |-> "none", fault |-> FALSE, ready |-> FALSE]
NoResponse == [status |-> 0, predictions |-> <<>>,
               health_status |-> "", model_loaded |-> FALSE, labels_loaded |-> FALSE,
               num_classes |-> 0]

-----------------------------------------------------------------------------
(* load_labels *)

DigitChars == <<"0", "1", "2", "3", "4", "5", "6", "7", "8", "9">>

IsDigit(c) == \E d \in 1..10 : DigitChars[d] = c

DigitVal(c) == (CHOOSE d \in 1..10 : DigitChars[d] = c) - 1

\* int(k) accepts a non-empty run of decimal digits, leading zeros included
\* (the keys of FileKeys carry no sign, blank or underscore).
IsIntLiteral(k) == Len(k) > 0 /\ \A i \in 1..Len(k) : IsDigit(k[i])

RECURSIVE IntValue(_)
IntValue(k) ==
    IF Len(k) = 0 THEN 0
    ELSE 10 * IntValue(SubSeq(k, 1, Len(k) - 1)) + DigitVal(k[Len(k)])

\* str(idx) for the indices enumerate() yields.
RECURSIVE Str(_)
Str(n) == IF n < 10 THEN <<DigitChars[n + 1]>>
          ELSE Str(n \div 10) \o <<DigitChars[(n % 10) + 1]>>

\* d[k] = v on a dict kept as a sequence of <<key, value>> in insertion
\* order: an existing key keeps its place and takes the new value.
DictSet(d, k, v) ==
    IF \E i \in 1..Len(d) : d[i][1] = k
    THEN [i \in 1..Len(d) |-> IF d[i][1] = k THEN <<k, v>> ELSE d[i]]
    ELSE Append(d, <<k, v>>)

RECURSIVE DictFromPairs(_)
DictFromPairs(pairs) ==
    IF Len(pairs) = 0 THEN <<>>
    ELSE LET last == pairs[Len(pairs)]
         IN DictSet(DictFromPairs(SubSeq(pairs, 1, Len(pairs) - 1)), last[1], last[2])

\* open() + json.load(): a JSON object becomes a dict, a later duplicate of a
\* key replacing the earlier value.
JsonLoad(file) ==
    CASE file.kind = "missing" -> [exc |-> "FileNotFoundError", kind |-> "none", items |-> <<>>]
      [] file.kind = "garbage" -> [exc |-> "JSONDecodeError", kind |-> "none", items |-> <<>>]
      [] file.kind = "array"   -> [exc |-> "None", kind |-> "list", items |-> <<>>]
      [] file.kind = "object"  -> [exc |-> "None", kind |-> "dict",
                                   items |-> DictFromPairs(file.pairs)]

\* {int(k): v for k, v in items}: the dict as a function on its integer keys.
IntKeyed(items) ==
    LET keys == { IntValue(items[i][1]) : i \in 1..Len(items) }
        lastAt(n) == CHOOSE i \in 1..Len(items) :
                        /\ IntValue(items[i][1]) = n
                        /\ \A j \in 1..Len(items) : IntValue(items[j][1]) = n => j <= i
    IN [n \in keys |-> items[lastAt(n)][2]]

load_labels(file) ==
    LET data == JsonLoad(file)
    IN IF data.exc # "None" THEN [exc |-> data.exc, map |-> <<>>]
       ELSE IF data.kind # "dict" THEN [exc |-> "AttributeError", map |-> <<>>]
       ELSE IF \E i \in 1..Len(data.items) : ~IsIntLiteral(data.items[i][1])
            THEN [exc |-> "ValueError", map |-> <<>>]
       ELSE [exc |-> "None", map |-> IntKeyed(data.items)]

-----------------------------------------------------------------------------
(* build_model, load_model *)

build_model(num_classes) == [loaded |-> TRUE, num_classes |-> num_classes]

\* torch.load() raises on a missing or unreadable file; load_state_dict()
\* raises RuntimeError when the checkpoint's head and the built head differ.
load_model(ckpt, num_classes) ==
    LET m == build_model(num_classes)
    IN CASE ckpt.kind = "missing" -> [exc |-> "FileNotFoundError", model |-> NoModel]
         [] ckpt.kind = "corrupt" -> [exc |-> "UnpicklingError", model |-> NoModel]
         [] ckpt.kind = "ok" ->
              IF ckpt.width # m.num_classes
              THEN [exc |-> "RuntimeError", model |-> NoModel]
              ELSE [exc |-> "None", model |-> m]

ImagePreprocessor(img_size) == [loaded |-> TRUE, img_size |-> img_size]

-----------------------------------------------------------------------------
(* save_labels_mapping (train.py) *)

\* class_name.split('-')
RECURSIVE Split(_)
Split(s) ==
    IF \A i \in 1..Len(s) : s[i] # "-" THEN <<s>>
    ELSE LET at == CHOOSE i \in 1..Len(s) :
                      s[i] = "-" /\ \A j \in 1..(i - 1) : s[j] # "-"
         IN <<SubSeq(s, 1, at - 1)>> \o Split(SubSeq(s, at + 1, Len(s)))

ClassLabel(class_name) ==
    IF \E i \in 1..Len(class_name) : class_name[i] = "-"
    THEN Split(class_name)[2]
    ELSE class_name

\* The labels.json the training run leaves on disk.
save_labels_mapping(classes) ==
    [kind |-> "object",
     pairs |-> [i \in 1..Len(classes) |-> <<Str(i - 1), ClassLabel(classes[i])>>]]

\* ImageFolder's class list: distinct folder names.
ClassLists ==
    { c \in SeqsUpTo(ClassNames, MaxClasses) :
        Len(c) >= 1 /\ \A i, j \in 1..Len(c) : i # j => c[i] # c[j] }

-----------------------------------------------------------------------------
(* preprocessing.py: ImagePreprocessor.load_image *)

\* The exception class Image.open(image_path) raises, "None" if it returns.
ImageOpen(image) ==
    CASE image = "enoent"  -> "FileNotFoundError"
      [] image = "enotdir" -> "NotADirectoryError"
      [] image = "eisdir"  -> "IsADirectoryError"
      [] image = "corrupt" -> "UnidentifiedImageError"
      [] image = "ok"      -> "None"

\* except FileNotFoundError re-raises FileNotFoundError; NotADirectoryError,
\* IsADirectoryError and PIL's errors are not subclasses of it and leave as
\* IOError, which is OSError.
load_image(image) ==
    LET e == ImageOpen(image)
    IN IF e = "FileNotFoundError" THEN "FileNotFoundError"
       ELSE IF e # "None" THEN "OSError"
       ELSE "None"

-----------------------------------------------------------------------------
(* predict *)

RECURSIVE SumExp(_)
SumExp(outputs) ==
    IF Len(outputs) = 0 THEN 0
    ELSE ExpMilli(outputs[Len(outputs)]) + SumExp(SubSeq(outputs, 1, Len(outputs) - 1))

\* torch.nn.functional.softmax: exp(x_i) / sum_j exp(x_j), kept as a fraction;
\* all entries share the denominator.
softmax(outputs) ==
    [i \in 1..Len(outputs) |-> [num |-> ExpMilli(outputs[i]), den |-> SumExp(outputs)]]

ProbGeq(p, q) == p.num >= q.num

\* topk with sorted=False: k largest entries in any order.
topk_Unsorted(probs, k) ==
    { idx \in [1..k -> 0..(Len(probs) - 1)] :
        /\ \A i, j \in 1..k : i # j => idx[i] # idx[j]
        /\ \A c \in 0..(Len(probs) - 1) :
              (\A i \in 1..k : idx[i] # c) =>
                  \A i \in 1..k : ProbGeq(probs[idx[i] + 1], probs[c + 1]) }

\* torch.topk(probabilities, k): the positions (0-based) of k largest entries,
\* largest first; which of several equal entries comes first is not fixed.
topk(probs, k) ==
    { idx \in [1..k -> 0..(Len(probs) - 1)] :
        /\ \A i, j \in 1..k : i # j => idx[i] # idx[j]
        /\ \A i \in 1..(k - 1) : ProbGeq(probs[idx[i] + 1], probs[idx[i + 1] + 1])
        /\ \A c \in 0..(Len(probs) - 1) :
              (\A i \in 1..k : idx[i] # c) =>
                  \A i \in 1..k : ProbGeq(probs[idx[i] + 1], probs[c + 1]) }

\* round(n / d) to the nearest integer, a tie going to the even one.
RoundHalfEven(n, d) ==
    LET q == n \div d
        r == n % d
    IN IF 2 * r < d THEN q
       ELSE IF 2 * r > d THEN q + 1
       ELSE IF q % 2 = 0 THEN q ELSE q + 1

\* round(prob.item(), 4), in ten-thousandths.
Round4(p) == RoundHalfEven(p.num * ROUND_SCALE, p.den)

Raise(exc) == [exc |-> exc, status |-> 0, predictions |-> <<>>]
HTTPException(status) == [exc |-> "HTTPException", status |-> status, predictions |-> <<>>]
Return(predictions) == [exc |-> "None", status |-> 0, predictions |-> predictions]

\* A guard that tests the model alone.
NotInitialized_ModelOnly(m, l, p) == ~m.loaded

\* if model is None or labels_map is None or preprocessor is None
NotInitialized(m, l, p) == ~m.loaded \/ ~l.loaded \/ ~p.loaded

\* The loop over zip(top_probs[0], top_indices[0]); labels_map[idx] raises
\* KeyError for an index that is no key.
FormatPredictions(probs, idx) ==
    IF \E i \in 1..Len(idx) : idx[i] \notin DOMAIN labels_map.map
    THEN Raise("KeyError")
    ELSE Return([i \in 1..Len(idx) |->
                    [label |-> labels_map.map[idx[i]],
                     confidence |-> Round4(probs[idx[i] + 1])]])

\* except FileNotFoundError -> 404; except Exception -> 500
PredictExcept(r) ==
    IF r.exc = "None" THEN r
    ELSE IF r.exc = "FileNotFoundError" THEN HTTPException(HTTP_NOT_FOUND)
    ELSE HTTPException(HTTP_INTERNAL)

\* predict(image_path, top_k): the set of its possible results.  `fault` says
\* that the forward pass raises (RuntimeError); `outputs` are the raw scores
\* the model computes for the image.
predict(image, top_k, fault, outputs) ==
    IF NotInitialized(model, labels_map, preprocessor)
    THEN { Raise("RuntimeError") }
    ELSE IF load_image(image) # "None"
         THEN { PredictExcept(Raise(load_image(image))) }
    ELSE IF fault
         THEN { PredictExcept(Raise("RuntimeError")) }
    ELSE LET probabilities == softmax(outputs)
             k == Min(top_k, Cardinality(DOMAIN labels_map.map))
         IN IF k > Len(probabilities)
            THEN { PredictExcept(Raise("RuntimeError")) }
            ELSE { PredictExcept(FormatPredictions(probabilities, idx)) :
                       idx \in topk(probabilities, k) }

-----------------------------------------------------------------------------
(* The handlers' answers *)

Answer(status, predictions) ==
    [status |-> status, predictions |-> predictions,
     health_status |-> "", model_loaded |-> FALSE, labels_loaded |-> FALSE,
     num_classes |-> 0]

\* infer: except HTTPException: raise; except Exception -> 500;
\* predictions[0] raises IndexError on an empty list.
infer(r) ==
    IF r.exc = "HTTPException" THEN Answer(r.status, <<>>)
    ELSE IF r.exc # "None" THEN Answer(HTTP_INTERNAL, <<>>)
    ELSE IF Len(r.predictions) = 0 THEN Answer(HTTP_INTERNAL, <<>>)
    ELSE Answer(HTTP_OK, r.predictions)

health ==
    [status |-> HTTP_OK, predictions |-> <<>>,
     health_status |-> "healthy",
     model_loaded |-> model.loaded,
     labels_loaded |-> labels_map.loaded,
     num_classes |-> IF labels_map.loaded /\ DOMAIN labels_map.map # {}
                     THEN Cardinality(DOMAIN labels_map.map) ELSE 0]

-----------------------------------------------------------------------------
(* Actions *)

Init ==
    /\ labels_file \in LabelFiles
    /\ checkpoint \in Checkpoints
    /\ TOP_K \in 1..MaxTopK
    /\ pc = "start"
    /\ startup_error = "None"
    /\ labels_map = NoLabels
    /\ model = NoModel
    /\ preprocessor = NoPreprocessor
    /\ request = NoRequest
    /\ response = NoResponse

\* train.py main(), run before the service process exists: labels.json is written
\* from the class folders; the "best" checkpoint the service loads is written
\* only if some epoch's validation accuracy exceeded 0.
Train ==
    /\ pc = "start"
    /\ request = NoRequest
    /\ \E classes \in ClassLists, improved \in BOOLEAN :
          /\ labels_file' = save_labels_mapping(classes)
          /\ checkpoint' = IF improved
                           THEN [kind |-> "ok", width |-> Len(classes)]
                           ELSE checkpoint
    /\ UNCHANGED <<TOP_K, pc, startup_error, labels_map, model, preprocessor,
                   request, response>>

\* lifespan: labels_map = load_labels(Config.LABELS_PATH)
LifespanLoadLabels ==
    /\ pc = "start"
    /\ LET r == load_labels(labels_file)
       IN IF r.exc # "None"
          THEN /\ pc' = "failed"
               /\ startup_error' = r.exc
               /\ UNCHANGED labels_map
          ELSE /\ pc' = "labels"
               /\ labels_map' = [loaded |-> TRUE, map |-> r.map]
               /\ UNCHANGED startup_error
    /\ UNCHANGED <<labels_file, checkpoint, TOP_K, model, preprocessor, request, response>>

\* A startup that logs a failed model load and goes on.
LifespanLoadModel_Swallows ==
    /\ pc = "labels"
    /\ LET num_classes == Cardinality(DOMAIN labels_map.map)
           r == load_model(checkpoint, num_classes)
       IN /\ pc' = "model"
          /\ model' = r.model
          /\ UNCHANGED startup_error
    /\ UNCHANGED <<labels_file, checkpoint, TOP_K, labels_map, preprocessor, request, response>>

\* lifespan: num_classes = len(labels_map); model = load_model(...)
LifespanLoadModel ==
    /\ pc = "labels"
    /\ LET num_classes == Cardinality(DOMAIN labels_map.map)
           r == load_model(checkpoint, num_classes)
       IN IF r.exc # "None"
          THEN /\ pc' = "failed"
               /\ startup_error' = r.exc
               /\ UNCHANGED model
          ELSE /\ pc' = "model"
               /\ model' = r.model
               /\ UNCHANGED startup_error
    /\ UNCHANGED <<labels_file, checkpoint, TOP_K, labels_map, preprocessor, request, response>>

\* lifespan: preprocessor = ImagePreprocessor(img_size=Config.IMG_SIZE); yield
LifespanInitPreprocessor ==
    /\ pc = "model"
    /\ preprocessor' = ImagePreprocessor(IMG_SIZE)
    /\ pc' = "ready"
    /\ UNCHANGED <<labels_file, checkpoint, TOP_K, startup_error, labels_map, model,
                   request, response>>

\* The raw scores a request can meet: one per output of the loaded head; none
\* is computed when the request fails before the forward pass returns.
OutputsFor(image, fault) ==
    IF NotInitialized(model, labels_map, preprocessor) \/ load_image(image) # "None" \/ fault
    THEN { <<>> }
    ELSE [1..model.num_classes -> Logits]

\* Whether the forward pass raises; it runs only on a decoded image.
FaultsFor(image) == IF load_image(image) # "None" THEN {FALSE} ELSE BOOLEAN

\* What POST /infer writes: the request and its answer.
InferStep ==
    \E image \in ImageKinds :
      \E fault \in FaultsFor(image) :
      \E outputs \in OutputsFor(image, fault) :
        \E r \in predict(image, TOP_K, fault, outputs) :
          /\ request' = [op |-> "infer", image |-> image, fault |-> fault,
                          ready |-> AllLoaded]
          /\ response' = infer(r)

\* A handler that drops the preprocessor after use.
Infer_DropsPreprocessor ==
    /\ InferStep
    /\ preprocessor' = NoPreprocessor
    /\ UNCHANGED <<labels_file, checkpoint, TOP_K, pc, startup_error, labels_map, model>>

\* POST /infer
Infer ==
    /\ InferStep
    /\ UNCHANGED <<labels_file, checkpoint, TOP_K, pc, startup_error,
                   labels_map, model, preprocessor>>

\* GET /health
Health ==
    /\ request' = [op |-> "health", image |-> "none", fault |-> FALSE,
                    ready |-> AllLoaded]
    /\ response' = health
    /\ UNCHANGED <<labels_file, checkpoint, TOP_K, pc, startup_error,
                   labels_map, model, preprocessor>>

Next ==
    \/ Train
    \/ LifespanLoadLabels
    \/ LifespanLoadModel
    \/ LifespanInitPreprocessor
    \/ Infer
    \/ Health

Spec == Init /\ [][Next]_vars

-----------------------------------------------------------------------------
(* Properties *)

Served == request.op = "infer" /\ response.status = HTTP_OK

LabelCount == Cardinality(DOMAIN labels_map.map)

\* C1: while model, labels_map or preprocessor is still unset (also in the
\* partial state a failed startup leaves), an infer request is answered with
\* an error (500) and carries no prediction list.
C1_RejectedBeforeInit ==
    (request.op = "infer" /\ (~request.ready \/ ~AllLoaded)) =>
        (response.status = HTTP_INTERNAL /\ response.predictions = <<>>)

\* C1 witness: an infer request handled after startup failed with the labels
\* loaded and the model unset.
C1_Witness ==
    /\ request.op = "infer"
    /\ ~request.ready
    /\ pc = "failed"
    /\ labels_map.loaded
    /\ ~model.loaded
    /\ response.status = HTTP_INTERNAL

\* C2: the service is Ready exactly when labels, model and preprocessor were
\* all constructed, without a startup error; a failed construction is
\* re-raised (recorded, startup stops in "failed"), the service then never
\* becomes Ready nor sets anything more, and predictions are served only by a
\* Ready service.
C2_ReadyOnlyAfterAll ==
    /\ [](pc = "ready" <=> AllLoaded)
    /\ [](pc = "ready" => startup_error = "None")
    /\ [](pc = "failed" <=> startup_error # "None")
    /\ [](pc \in {"labels", "model", "ready"} => load_labels(labels_file).exc = "None")
    /\ [](pc \in {"model", "ready"} => load_model(checkpoint, LabelCount).exc = "None")
    /\ [](Served => (pc = "ready" /\ request.ready))
    /\ [][pc = "failed" => (pc' = "failed" /\ UNCHANGED shared)]_vars

\* C2 witness: startup failed at the model, after the labels were loaded, and
\* a request was then refused.
C2_Witness ==
    /\ pc = "failed"
    /\ startup_error = "RuntimeError"
    /\ labels_map.loaded
    /\ request.op = "infer"
    /\ response.status = HTTP_INTERNAL

\* The failure category of a request, read narrowly: not found = the path has
\* no entry; invalid = the file is there and does not decode; internal = the
\* forward pass raises.
Category(req) ==
    IF req.op # "infer" \/ ~req.ready THEN "none"
    ELSE IF req.image = "enoent" THEN "not_found"
    ELSE IF req.image = "corrupt" THEN "invalid"
    ELSE IF req.image = "ok" /\ req.fault THEN "internal"
    ELSE "none"

\* C3: two successive requests to a Ready service that fail in different
\* categories (not found, invalid, internal) never get the same status.
C3_DistinctStatuses ==
    [][(/\ Category(request) # "none"
        /\ Category(request') # "none"
        /\ Category(request) # Category(request'))
       => response.status # response'.status]_vars

\* C4: on a Ready service a request whose path leads to no existing file
\* (no entry, or a path running through a regular file) is answered 404.
C4_NotFoundIs404 ==
    (request.op = "infer" /\ request.ready /\ request.image \in {"enoent", "enotdir"})
        => response.status = HTTP_NOT_FOUND

\* C5: with a label file whose number of entries differs from the width of
\* the checkpoint's head, the service never is Ready.
C5_SizeMismatchNeverReady ==
    (/\ labels_file.kind = "object"
     /\ checkpoint.kind = "ok"
     /\ Len(JsonLoad(labels_file).items) # checkpoint.width)
        => pc # "ready"

\* The label file is missing or malformed: not a JSON object, a key that is
\* no integer, or two keys denoting the same integer.
Malformed(file) ==
    \/ file.kind # "object"
    \/ \E i \in 1..Len(file.pairs) : ~IsIntLiteral(file.pairs[i][1])
    \/ \E i, j \in 1..Len(file.pairs) :
          /\ i # j
          /\ IsIntLiteral(file.pairs[i][1])
          /\ IsIntLiteral(file.pairs[j][1])
          /\ IntValue(file.pairs[i][1]) = IntValue(file.pairs[j][1])

\* C6: once startup has loaded the labels, a missing or malformed label file
\* has produced no table.
C6_MalformedRejected ==
    (pc # "start" /\ Malformed(labels_file)) => ~labels_map.loaded

\* C7: a successful infer result has min(TOP_K, class count) entries, the
\* class count being both the number of loaded labels and the width of the
\* model, and its rounded confidences never increase along the list.
C7_SortedTopK ==
    Served =>
        /\ LabelCount = model.num_classes
        /\ Len(response.predictions) = Min(TOP_K, LabelCount)
        /\ \A i \in 1..(Len(response.predictions) - 1) :
              response.predictions[i].confidence >= response.predictions[i + 1].confidence

\* C7 witness: a served list of two entries with different confidences.
C7_Witness ==
    /\ Served
    /\ Len(response.predictions) = 2
    /\ response.predictions[1].confidence > response.predictions[2].confidence

\* C8: no successful infer result holds the same label twice.
C8_NoDuplicateLabels ==
    Served =>
        \A i, j \in 1..Len(response.predictions) :
            i # j => response.predictions[i].label # response.predictions[j].label

\* C9: in a Ready state every index 0..num_classes-1 is a key of the label
\* table, and the table has num_classes entries.
C9_EveryIndexHasLabel ==
    pc = "ready" =>
        /\ \A c \in 0..(model.num_classes - 1) : c \in DOMAIN labels_map.map
        /\ LabelCount = model.num_classes

\* C10: each of model, labels_map and preprocessor changes only in its own
\* startup step, from unset to set; once all three are set no step (infer,
\* health, successful or failing) changes any of them.
C10_SharedStateFrozen ==
    [][/\ AllLoaded => UNCHANGED shared
       /\ labels_map' # labels_map =>
             (pc = "start" /\ ~labels_map.loaded /\ labels_map'.loaded)
       /\ model' # model =>
             (pc = "labels" /\ ~model.loaded /\ model'.loaded)
       /\ preprocessor' # preprocessor =>
             (pc = "model" /\ ~preprocessor.loaded /\ preprocessor'.loaded)]_vars

\* C10 witness: a Ready service that has served a prediction.
C10_Witness == AllLoaded /\ pc = "ready" /\ Served /\ request.ready

\* C11: a health request never fails, reports readiness (model and labels
\* both loaded) exactly when all three globals are set, reports the number of
\* loaded labels (0 when none are loaded), and reports "healthy" only when all
\* three globals are set.
C11_HealthReportsReadiness ==
    [][(request'.op = "health" /\ <<request', response'>> # <<request, response>>) =>
          /\ response'.status = HTTP_OK
          /\ (response'.model_loaded /\ response'.labels_loaded) <=> AllLoaded
          /\ response'.num_classes = (IF labels_map.loaded THEN LabelCount ELSE 0)
          /\ response'.health_status = "healthy" => AllLoaded]_vars

====
